---------------------------- MODULE Spec2Model ----------------------------
(***************************************************************************)
(* The conversation store of the chat backend                              *)
(* (src/src/core/chat/conversation_manager.py, ConversationManager) over   *)
(* the message models of src/src/models/chat_models.py.                    *)
(*                                                                         *)
(* A text is represented by the number of tokens the tokenizer encodes it  *)
(* to.  A content block carries its runtime shape: "dict" for a plain      *)
(* dictionary handed in by a caller, "model" for a validated block object  *)
(* (TextBlock, ToolUseBlock, ToolResultBlock).  The shape decides what     *)
(* _estimate_tokens counts.                                                *)
(*                                                                         *)
(* Around the store: the assistant's generate_response                     *)
(* (src/src/generation/claude_assistant.py), the vector store and query    *)
(* client (src/src/vector_storage/vector_db.py), the FastAPI application   *)
(* (src/src/app.py) and the Redis repository                               *)
(* (src/src/infra/data/redis_repository.py), each with a specification of  *)
(* its own over the same variables.                                        *)
(***************************************************************************)
EXTENDS Integers, Sequences, FiniteSets, TLC

\* Bounds of the model.
MaxConvs == 2
MaxMsgs == 3

\* ConversationManager(max_tokens=...): the configured ceiling.
max_tokens == 10

ConvIds == 1..MaxConvs
\* Texts, each given by its encoded length in tokens.
TextLens == {5}
\* Role, and the role strings callers pass: add_message takes a str (which
\* need not be a Role), add_pending_message a Role.
Roles == {"user", "assistant"}
PendingRoleInputs == {"assistant"}
NoText == -1
NoId == 0

VARIABLES
    conversations,   \* self.conversations: dict id -> [messages, token_count]
    pending,         \* self.pending_messages: dict id -> list of messages
    nextMsgId,       \* source of fresh message_id values (uuid4)
    counted,         \* bookkeeping: message_id of a committed message -> the
                     \*   tokens that were added to token_count for it
    lastCommitted,   \* bookkeeping: id -> message_id of the message committed
                     \*   to it most recently (NoId if none yet)
    returned,        \* the history the last call returned, or NoHistory
    lastOp           \* the last call: its operation, how it ended, and how
                     \*   many pending messages it took out of a buffer

\* The state of a ClaudeAssistant and of its generate_response call in progress.
VARIABLES
    history,         \* self.conversation_history.messages
    pc,              \* where generate_response stands ("idle": no call running)
    response,        \* response.content of the first model call
    pos,             \* index of the loop over response.content (line 179)
    tool_results,    \* the local list tool_results
    tool_calls,      \* bookkeeping: ids of the tool-use blocks whose tool was
                     \*   executed in this call, in execution order
    model_calls,     \* bookkeeping: the client.messages.create attempts of
                     \*   this call, each with its round and whether it failed
    outcome,         \* how the last generate_response call ended
    callNo           \* number of generate_response calls started

\* The objects around the chat core: the vector store and its query client
\* (vector_db.py), the FastAPI application (app.py) and the Redis repository
\* with the Redis server behind it (redis_repository.py).
VARIABLES
    vector_db,          \* the fields of the VectorDB constructed last
    user_query,         \* combine_queries: its argument user_query
    generated_queries,  \* combine_queries: its argument generated_queries
    combined_queries,   \* combine_queries: what it returned, or NotCalled
    app,                \* the FastAPI application: app.exception_handlers
    responses,          \* bookkeeping: the requests served, each with the
                        \*   exception its endpoint raised and the answer sent
    redis,              \* the keys of the Redis server: key -> entry
    repo_result         \* the last RedisRepository call and how it ended

mvars == <<conversations, pending, nextMsgId, counted, lastCommitted, returned, lastOp>>
avars == <<history, pc, response, pos, tool_results, tool_calls, model_calls,
           outcome, callNo>>
qvars == <<vector_db, user_query, generated_queries, combined_queries>>
pvars == <<app, responses>>
rvars == <<redis, repo_result>>
xvars == <<qvars, pvars, rvars>>
vars == <<conversations, pending, nextMsgId, counted, lastCommitted, returned, lastOp,
          history, pc, response, pos, tool_results, tool_calls, model_calls,
          outcome, callNo,
          vector_db, user_query, generated_queries, combined_queries,
          app, responses, redis, repo_result>>

----------------------------------------------------------------------------
\* Content blocks and messages (chat_models.py).

TextBlock(shape, n) == [shape |-> shape, type |-> "text", text |-> n]
ToolUseBlock(shape, id) ==
    [shape |-> shape, type |-> "tool_use", text |-> NoText, id |-> id]
ToolResultBlock(shape, tool_use_id) ==
    [shape |-> shape, type |-> "tool_result", text |-> NoText, tool_use_id |-> tool_use_id]

\* What a caller hands to add_message as content (str | list[dict]): plain
\* text, or a list of blocks given as dictionaries.
StrContent(n) == [kind |-> "str", text |-> n, items |-> <<>>]
ListContent(items) == [kind |-> "list", text |-> NoText, items |-> items]

ContentInputs ==
    {StrContent(n) : n \in TextLens}
    \cup {ListContent(<<TextBlock("dict", n)>>) : n \in TextLens}
    \cup {ListContent(<<TextBlock("dict", n), ToolUseBlock("dict", 1), TextBlock("dict", n)>>) :
              n \in TextLens}

\* The (role, content) pairs add_message is called with: role "user" with
\* every content, and one call whose role string is no Role.
AddInputs ==
    {<<"user", content>> : content \in ContentInputs}
    \cup {<<"system", ListContent(<<TextBlock("dict", n)>>)>> : n \in TextLens}

\* MessageContent.from_str(text): one text block holding the text.
MessageContentFromStr(n) == ListContent(<<TextBlock("model", n)>>)

\* ConversationMessage.validate_content: block objects are kept, dictionaries
\* of a known type become block objects, anything else (the characters of a
\* plain string among them) is rejected.
ContentValid(content) ==
    /\ content.kind = "list"
    /\ \A i \in 1..Len(content.items) :
          /\ content.items[i].shape \in {"dict", "model"}
          /\ content.items[i].type \in {"text", "tool_use", "tool_result"}

validate_content(content) ==
    [i \in 1..Len(content.items) |-> [content.items[i] EXCEPT !.shape = "model"]]

\* ConversationMessage(role=..., content=...) with a fresh message_id.
RoleValid(role) == role \in Roles
ConversationMessage(mid, role, content) ==
    [message_id |-> mid, role |-> role, content |-> validate_content(content)]

\* ConversationHistory(): no messages, token_count 0.
ConversationHistory == [messages |-> <<>>, token_count |-> 0]

----------------------------------------------------------------------------
\* Token estimation and pruning (conversation_manager.py).

RECURSIVE SumTextOfDicts(_)
SumTextOfDicts(items) ==
    IF items = <<>> THEN 0
    ELSE (IF Head(items).shape = "dict" /\ Head(items).text # NoText
          THEN Head(items).text ELSE 0) + SumTextOfDicts(Tail(items))

\* _estimate_tokens(content): a str by its encoded length, a list by the
\* summed lengths of the "text" entries of its dict items, otherwise 0.
_estimate_tokens(content) ==
    IF content.kind = "str" THEN content.text
    ELSE IF content.kind = "list" THEN SumTextOfDicts(content.items)
    ELSE 0

\* The content of a stored message is a list of block objects.
StoredContent(message) == ListContent(message.content)

\* Variants of the loop condition with another floor on the message count.
PruneConditionLenTwo(conversation) ==
    /\ 10 * conversation.token_count > 9 * max_tokens
    /\ Len(conversation.messages) > 2

PruneConditionLenZero(conversation) ==
    /\ 10 * conversation.token_count > 9 * max_tokens
    /\ Len(conversation.messages) > 0

\* _prune_history: while over 90% of max_tokens and more than one message,
\* pop the oldest and subtract the estimate of its content.
PruneCondition(conversation) ==
    /\ 10 * conversation.token_count > 9 * max_tokens
    /\ Len(conversation.messages) > 1

RECURSIVE _prune_history(_)
_prune_history(conversation) ==
    IF PruneCondition(conversation)
    THEN _prune_history(
            [messages |-> Tail(conversation.messages),
             token_count |-> conversation.token_count
                  - _estimate_tokens(StoredContent(Head(conversation.messages)))])
    ELSE conversation

----------------------------------------------------------------------------
\* What a call hands back to the caller: nothing, the stored history object
\* itself ("stored": its contents are whatever self.conversations holds under
\* that id), or a newly built combined history.  shared tells whether the
\* combined history's message list is the very list object of the stored one.
NoHistory == [kind |-> "none", conversation_id |-> NoId, messages |-> <<>>,
              token_count |-> 0, shared |-> FALSE]
StoredHistory(id) == [kind |-> "stored", conversation_id |-> id, messages |-> <<>>,
                      token_count |-> 0, shared |-> TRUE]
CombinedHistory(id, messages, token_count, shared) ==
    [kind |-> "combined", conversation_id |-> id, messages |-> messages,
     token_count |-> token_count, shared |-> shared]

\* (CallSwallowed: a call whose error is logged and not raised)
CallSwallowed(op, res, n) == [op |-> op, res |-> "ok", n |-> n]
Call(op, res, n) == [op |-> op, res |-> res, n |-> n]

\* dict helpers: d.pop(k, None), d[k] = v, d.get(k)
\* (DictPopKeeps: a pop that leaves the entry in place)
DictPopKeeps(d, k) == d
DictPop(d, k) == [x \in DOMAIN d \ {k} |-> d[x]]
\* (DictSetAlone: an assignment that rebinds the dictionary to the one entry)
DictSetAlone(d, k, v) == [x \in {k} |-> v]
DictSet(d, k, v) == [x \in DOMAIN d \cup {k} |-> IF x = k THEN v ELSE d[x]]
\* (KnownInPending: the id looked up in the wrong dictionary)
KnownInPending(id) == id \in DOMAIN pending
Known(id) == id \in DOMAIN conversations
HasBuffer(id) == id \in DOMAIN pending
\* self.pending_messages.get(id) / .pop(id, None), None read as no messages
pending_buffer(id) == IF HasBuffer(id) THEN pending[id] ELSE <<>>
\* the list add_pending_message appends to: the buffer of the id, created
\* empty when the id has none (buffer_reset: a list started anew every time)
buffer_reset(id) == <<>>
buffer_for_append(id) == IF HasBuffer(id) THEN pending[id] ELSE <<>>

\* Bookkeeping kept for the messages that are in some committed history.
MessageIds(messages) == {messages[i].message_id : i \in 1..Len(messages)}
StoredIds(convs) == UNION {MessageIds(convs[id].messages) : id \in DOMAIN convs}
Recount(convs, added) ==
    [mid \in StoredIds(convs) |->
        IF mid \in DOMAIN added THEN added[mid] ELSE counted[mid]]

\* ClaudeAssistant.__init__ / _init: an empty ConversationHistory, no call
\* running.
NoOutcome == [kind |-> "none", error |-> "none", root |-> "none"]
AssistantInit ==
    /\ history = <<>>
    /\ pc = "idle"
    /\ response = <<>>
    /\ pos = 1
    /\ tool_results = <<>>
    /\ tool_calls = <<>>
    /\ model_calls = <<>>
    /\ outcome = NoOutcome
    /\ callNo = 0

\* ConversationManager.__init__: no conversation, no buffer.
ManagerInit ==
    /\ conversations = <<>>
    /\ pending = <<>>
    /\ nextMsgId = 1
    /\ counted = <<>>
    /\ lastCommitted = [id \in ConvIds |-> NoId]
    /\ returned = NoHistory
    /\ lastOp = Call("init", "ok", 0)

----------------------------------------------------------------------------
\* The vector store and the query client (vector_db.py).

\* Bounds: the characters of a query string, and the generated queries
\* handed to combine_queries.
MaxQueryLen == 2
MaxExpansions == 2

\* A str is the sequence of its characters; " " stands for whitespace.
Chars == {" ", "a"}
QueryStrings == UNION {[1..n -> Chars] : n \in 0..MaxQueryLen}
QueryLists == UNION {[1..n -> QueryStrings] : n \in 0..MaxExpansions}

\* str.strip(): the string without its leading and trailing whitespace.
RECURSIVE lstrip(_)
lstrip(s) == IF s # <<>> /\ Head(s) = " " THEN lstrip(Tail(s)) ELSE s
RECURSIVE rstrip(_)
rstrip(s) ==
    IF s # <<>> /\ s[Len(s)] = " " THEN rstrip(SubSeq(s, 1, Len(s) - 1)) ELSE s
strip(s) == rstrip(lstrip(s))

\* [query for query in queries if query.strip()]
RECURSIVE stripped_nonempty(_)
stripped_nonempty(queries) ==
    IF queries = <<>> THEN <<>>
    ELSE (IF strip(Head(queries)) # <<>> THEN <<Head(queries)>> ELSE <<>>)
         \o stripped_nonempty(Tail(queries))

\* OpenAIClient.combine_queries(user_query, generated_queries)
combine_queries(query, queries) == stripped_nonempty(<<query>> \o queries)

\* What a call returned; NotCalled while there was none.
NotCalled == [called |-> FALSE, value |-> <<>>]
ReturnValue(value) == [called |-> TRUE, value |-> value]

\* VectorDB(collection_name=..., ...): Omitted is an argument left out, which
\* takes the default of the signature.
Omitted == "(omitted)"
CollectionNames == {"local-collection", "docs"}
NoVectorDB == [collection_name |-> "(none)", embedding_function_name |-> "(none)",
               client |-> "(none)", collection |-> "(none)"]
VectorDB__init__(collection_name, embedding_function) ==
    [collection_name |-> IF collection_name = Omitted THEN "supabase_collection"
                         ELSE collection_name,
     embedding_function_name |-> IF embedding_function = Omitted
                                 THEN "text-embedding-3-small"
                                 ELSE embedding_function,
     client |-> "None",
     collection |-> "None"]

QueryInit ==
    /\ vector_db = NoVectorDB
    /\ user_query = <<>>
    /\ generated_queries = <<>>
    /\ combined_queries = NotCalled

\* vector_db = VectorDB(...)
VectorDB(collection_name, embedding_function) ==
    /\ vector_db' = VectorDB__init__(collection_name, embedding_function)
    /\ UNCHANGED <<user_query, generated_queries, combined_queries>>
    /\ UNCHANGED <<mvars, avars, pvars, rvars>>

\* combined_queries = self.query_generator.combine_queries(rag_query,
\* multiple_queries) (claude_assistant.py, use_rag_search)
use_rag_search_combine ==
    /\ ~combined_queries.called
    /\ combined_queries' = ReturnValue(combine_queries(user_query, generated_queries))
    /\ UNCHANGED <<vector_db, user_query, generated_queries>>
    /\ UNCHANGED <<mvars, avars, pvars, rvars>>

----------------------------------------------------------------------------
\* The FastAPI application and its exception handlers (app.py,
\* api/handlers/error_handlers.py).

\* Bound: the requests served.
MaxRequests == 4

\* What an endpoint raises while serving a request: nothing, or an exception
\* of one of these classes.  Each class derives from Exception; only
\* NonRetryableError carries an error_message.
NoException == "(none)"
ExceptionTypes == {"ValueError", "RuntimeError", "NonRetryableError"}
mro(exc) == <<exc, "Exception">>
has_error_message(exc) == exc = "NonRetryableError"

\* app.exception_handlers: exception class -> handler; NoHandler where the
\* dictionary has no entry.
NoHandler == "(none)"
HandlerKeys == ExceptionTypes \cup {"Exception"}
NoApp == [created |-> FALSE, exception_handlers |-> [key \in HandlerKeys |-> NoHandler]]
FastAPI == [created |-> TRUE, exception_handlers |-> [key \in HandlerKeys |-> NoHandler]]
\* app.add_exception_handler(key, handler): self.exception_handlers[key] = handler
add_exception_handler(application, key, handler) ==
    [application EXCEPT !.exception_handlers[key] = handler]

\* The answers: a JSONResponse of a handler, the plain-text 500 of the server
\* when no handler answered, and the endpoint's own answer.
JSONResponse(status_code, code, detail, handler) ==
    [status_code |-> status_code, code |-> code, detail |-> detail, handler |-> handler]
PlainServerError == JSONResponse(500, "(none)", "Internal Server Error", NoHandler)
EndpointResponse == JSONResponse(200, "(none)", "(none)", NoHandler)
\* A handler that raised instead of answering.
HandlerRaised(error) == JSONResponse(0, "(none)", error, NoHandler)

global_exception_handler(exc) ==
    JSONResponse(500, "SERVER_ERROR",
                 "An internal server error occurred, please contact support.",
                 "global_exception_handler")
\* reads exc.error_message, which only a NonRetryableError has
non_retryable_exception_handler(exc) ==
    IF has_error_message(exc)
    THEN JSONResponse(500, "SERVER_ERROR",
                      "An internal error occurred while processing your request",
                      "non_retryable_exception_handler")
    ELSE HandlerRaised("AttributeError")

call_handler(handler, exc) ==
    IF handler = "global_exception_handler" THEN global_exception_handler(exc)
    ELSE non_retryable_exception_handler(exc)

\* How the application answers a request whose endpoint raised exc.  A
\* handler registered for a class other than Exception is looked up along
\* the exception's classes; the handler registered for Exception is the one
\* the server-error layer calls for whatever was not handled before.  A
\* handler that raises leaves the server to answer with its plain 500.
lookup_handler(application, exc) ==
    LET classes == mro(exc)
        registered == {i \in 1..Len(classes) :
                          application.exception_handlers[classes[i]] # NoHandler}
    IN  IF registered = {} THEN NoHandler
        ELSE application.exception_handlers[
                classes[CHOOSE i \in registered : \A j \in registered : i <= j]]
handle_exception(application, exc) ==
    LET handler == lookup_handler(application, exc)
        answer == call_handler(handler, exc)
    IN  IF handler = NoHandler \/ answer.status_code = 0 THEN PlainServerError
        ELSE answer

AppInit ==
    /\ app = NoApp
    /\ responses = <<>>

\* create_app(): the application with its two handlers registered, in the
\* order of lines 77 and 78.
create_app ==
    /\ ~app.created
    /\ app' = add_exception_handler(
                 add_exception_handler(FastAPI, "Exception", "global_exception_handler"),
                 "Exception", "non_retryable_exception_handler")
    /\ UNCHANGED responses
    /\ UNCHANGED <<mvars, avars, qvars, rvars>>

\* One request served: its endpoint answers, or raises exc.
serve_request(exc) ==
    /\ app.created
    /\ Len(responses) < MaxRequests
    /\ responses' = Append(responses,
            [raised |-> exc,
             response |-> IF exc = NoException THEN EndpointResponse
                          ELSE handle_exception(app, exc)])
    /\ UNCHANGED app
    /\ UNCHANGED <<mvars, avars, qvars, rvars>>

----------------------------------------------------------------------------
\* The Redis repository and the Redis server behind it
\* (infra/data/redis_repository.py); calls without a pipeline.

\* Bounds: the conversation ids used as keys, and the length of a list.
MaxKeys == 1
MaxList == 2

RedisIds == 1..MaxKeys
\* Model classes: the two the repository is configured for, and one more
\* pydantic model.
ModelClasses == {"ConversationHistory", "ConversationMessage", "TextBlock"}
prefix_config ==
    [model_class \in {"ConversationHistory", "ConversationMessage"} |->
        IF model_class = "ConversationHistory" THEN "history" ELSE "pending_messages"]
ttl_config ==
    [model_class \in {"ConversationHistory", "ConversationMessage"} |->
        IF model_class = "ConversationHistory" THEN 60 * 60 * 24 ELSE 60 * 60]

\* _get_prefix and _get_ttl: the formatted key / the TTL, or ValueError for a
\* model class that is not configured.
\* (_get_prefix_any: a key formatted for whatever class is given)
_get_prefix_any(model_class, key) ==
    [ok |-> TRUE, prefix |-> <<model_class, key>>]
_get_prefix(model_class, key) ==
    IF model_class \in DOMAIN prefix_config
    THEN [ok |-> TRUE, prefix |-> <<prefix_config[model_class], key>>]
    ELSE [ok |-> FALSE, prefix |-> <<"ValueError", NoId>>]
_get_ttl(model_class) ==
    IF model_class \in DOMAIN ttl_config
    THEN [ok |-> TRUE, ttl |-> ttl_config[model_class]]
    ELSE [ok |-> FALSE, ttl |-> 0]

\* _to_json / _from_json: the JSON text of a model instance names its class;
\* validating it as another class fails.
_to_json(model_class) == [json |-> model_class]
_from_json(data, model_class) ==
    IF data.json = model_class THEN "value" ELSE "ValidationError"

\* The server: a key holds a string or a list, each with its time to live
\* (-1: none).  A command on a key of the other kind is refused (WRONGTYPE).
exists(db, k) == k \in DOMAIN db
redis_set(db, k, data, ex) ==
    [x \in DOMAIN db \cup {k} |->
        IF x = k THEN [kind |-> "string", items |-> <<data>>, ttl |-> ex] ELSE db[x]]
redis_delete(db, k) == [x \in DOMAIN db \ {k} |-> db[x]]
redis_rpush(db, k, data) ==
    [x \in DOMAIN db \cup {k} |->
        IF x # k THEN db[x]
        ELSE IF exists(db, k) THEN [db[k] EXCEPT !.items = Append(@, data)]
        ELSE [kind |-> "list", items |-> <<data>>, ttl |-> -1]]
redis_expire(db, k, ttl) ==
    IF exists(db, k) THEN [db EXCEPT ![k].ttl = ttl] ELSE db
\* LPOP / RPOP: the list without its first / last element; a list that
\* becomes empty is removed.
redis_pop(db, k, rest) ==
    IF rest = <<>> THEN redis_delete(db, k) ELSE [db EXCEPT ![k].items = rest]
wrong_type(db, k, kind) == exists(db, k) /\ db[k].kind # kind

RepoCall(op, res) == [op |-> op, res |-> res]
RedisInit ==
    /\ redis = <<>>
    /\ repo_result = RepoCall("init", "None")

\* The repository's calls leave everything but the server and their own
\* result alone.  A refusal of the server is raised (ResponseError).
RepoFrame == UNCHANGED <<mvars, avars, qvars, pvars>>

\* set_method(key, value): value is an instance of value_class.
set_method(key, value_class) ==
    LET formatted == _get_prefix(value_class, key)
        prefix == formatted.prefix
        ttl == _get_ttl(value_class)
    IN  /\ RepoFrame
        /\ IF ~formatted.ok \/ ~ttl.ok
           THEN /\ repo_result' = RepoCall("set_method", "ValueError")
                /\ UNCHANGED redis
           ELSE /\ redis' = redis_set(redis, prefix, _to_json(value_class), ttl.ttl)
                /\ repo_result' = RepoCall("set_method", "None")

\* get_method(key, model_class)
get_method(key, model_class) ==
    LET formatted == _get_prefix(model_class, key)
        prefix == formatted.prefix
    IN  /\ RepoFrame
        /\ UNCHANGED redis
        /\ repo_result' = RepoCall("get_method",
              IF ~formatted.ok THEN "ValueError"
              ELSE IF ~exists(redis, prefix) THEN "None"
              ELSE IF wrong_type(redis, prefix, "string") THEN "ResponseError"
              ELSE _from_json(redis[prefix].items[1], model_class))

\* rpush_method(key, value): RPUSH, then EXPIRE.
rpush_method(key, value_class) ==
    LET formatted == _get_prefix(value_class, key)
        prefix == formatted.prefix
        ttl == _get_ttl(value_class)
    IN  /\ RepoFrame
        /\ IF ~formatted.ok \/ ~ttl.ok
           THEN /\ repo_result' = RepoCall("rpush_method", "ValueError")
                /\ UNCHANGED redis
           ELSE IF wrong_type(redis, prefix, "list")
           THEN /\ repo_result' = RepoCall("rpush_method", "ResponseError")
                /\ UNCHANGED redis
           ELSE /\ exists(redis, prefix) => Len(redis[prefix].items) < MaxList
                /\ redis' = redis_expire(
                               redis_rpush(redis, prefix, _to_json(value_class)),
                               prefix, ttl.ttl)
                /\ repo_result' = RepoCall("rpush_method", "None")

\* lrange_method(key, 0, -1, model_class): the whole list.
lrange_method(key, model_class) ==
    LET formatted == _get_prefix(model_class, key)
        prefix == formatted.prefix
    IN  /\ RepoFrame
        /\ UNCHANGED redis
        /\ repo_result' = RepoCall("lrange_method",
              IF ~formatted.ok THEN "ValueError"
              ELSE IF ~exists(redis, prefix) THEN "[]"
              ELSE IF wrong_type(redis, prefix, "list") THEN "ResponseError"
              ELSE IF \E i \in 1..Len(redis[prefix].items) :
                         _from_json(redis[prefix].items[i], model_class) # "value"
              THEN "ValidationError"
              ELSE "values")

\* delete_method(key, model_class)
delete_method(key, model_class) ==
    LET formatted == _get_prefix(model_class, key)
        prefix == formatted.prefix
    IN  /\ RepoFrame
        /\ IF ~formatted.ok
           THEN /\ repo_result' = RepoCall("delete_method", "ValueError")
                /\ UNCHANGED redis
           ELSE /\ redis' = redis_delete(redis, prefix)
                /\ repo_result' = RepoCall("delete_method", "None")

\* lpop_method / rpop_method (key, model_class): op names the method, which
\* takes the first / the last element off the list.
AllButLast(items) == SubSeq(items, 1, Len(items) - 1)
pop_method(op, key, model_class) ==
    LET formatted == _get_prefix(model_class, key)
        prefix == formatted.prefix
        rest(items) == IF op = "lpop_method" THEN Tail(items) ELSE AllButLast(items)
    IN  /\ RepoFrame
        /\ IF ~formatted.ok
           THEN /\ repo_result' = RepoCall(op, "ValueError")
                /\ UNCHANGED redis
           ELSE IF ~exists(redis, prefix)
           THEN /\ repo_result' = RepoCall(op, "None")
                /\ UNCHANGED redis
           ELSE IF wrong_type(redis, prefix, "list")
           THEN /\ repo_result' = RepoCall(op, "ResponseError")
                /\ UNCHANGED redis
           ELSE /\ redis' = redis_pop(redis, prefix, rest(redis[prefix].items))
                /\ repo_result' = RepoCall(op, "value")
lpop_method(key, model_class) == pop_method("lpop_method", key, model_class)
rpop_method(key, model_class) == pop_method("rpop_method", key, model_class)

----------------------------------------------------------------------------
Init ==
    /\ ManagerInit
    /\ AssistantInit
    /\ QueryInit
    /\ AppInit
    /\ RedisInit

\* The query client on its own: the query and the generated queries are
\* whatever the model calls before returned, empty and blank lines among
\* them.
VectorInit ==
    /\ ManagerInit
    /\ AssistantInit
    /\ vector_db = NoVectorDB
    /\ user_query \in QueryStrings
    /\ generated_queries \in QueryLists
    /\ combined_queries = NotCalled
    /\ AppInit
    /\ RedisInit

VectorNext ==
    \/ \E collection_name \in CollectionNames \cup {Omitted} :
          VectorDB(collection_name, Omitted)
    \/ use_rag_search_combine

VectorSpec == VectorInit /\ [][VectorNext]_vars

\* The application on its own.
AppNext ==
    \/ create_app
    \/ \E exc \in ExceptionTypes \cup {NoException} : serve_request(exc)

AppSpec == Init /\ [][AppNext]_vars

\* The repository on its own.
RedisNext ==
    \E key \in RedisIds, model_class \in ModelClasses :
        \/ set_method(key, model_class)
        \/ get_method(key, model_class)
        \/ rpush_method(key, model_class)
        \/ lrange_method(key, model_class)
        \/ delete_method(key, model_class)
        \/ lpop_method(key, model_class)
        \/ rpop_method(key, model_class)

RedisSpec == Init /\ [][RedisNext]_vars

----------------------------------------------------------------------------
\* uuid4 generates an id that no call has used yet; ids are interchangeable,
\* so the generated id is taken to be the least of those.
FreshIds == ConvIds \ (DOMAIN conversations \cup DOMAIN pending)
GeneratedId(new) == new \in FreshIds /\ \A other \in FreshIds : new <= other

\* create_conversation(): a history under a generated id, saved and returned.
create_conversation(new) ==
    /\ GeneratedId(new)
    /\ conversations' = DictSet(conversations, new, ConversationHistory)
    /\ returned' = StoredHistory(new)

\* get_or_create_conversation(conversation_id): None creates under a generated
\* id; an id that is not stored calls create_conversation(conversation_id=...),
\* which takes no such argument (TypeError); a stored id returns its history.
get_or_create_conversation(conversation_id) ==
    /\ \/ /\ conversation_id = NoId
          /\ \E new \in ConvIds : create_conversation(new)
          /\ lastOp' = Call("get_or_create_conversation", "ok", 0)
       \/ /\ conversation_id # NoId
          /\ ~Known(conversation_id)
          /\ returned' = NoHistory
          /\ lastOp' = Call("get_or_create_conversation", "TypeError", 0)
          /\ UNCHANGED conversations
       \/ /\ conversation_id # NoId
          /\ Known(conversation_id)
          /\ returned' = StoredHistory(conversation_id)
          /\ lastOp' = Call("get_or_create_conversation", "ok", 0)
          /\ UNCHANGED conversations
    /\ UNCHANGED <<pending, nextMsgId, counted, lastCommitted>>
    /\ UNCHANGED <<avars, xvars>>

\* add_message(conversation_id, role, content)
add_message(conversation_id, role, content) ==
    /\ UNCHANGED <<avars, xvars>>
    /\ returned' = NoHistory
    /\ IF ~Known(conversation_id)
       THEN /\ lastOp' = Call("add_message", "ValueError", 0)
            /\ UNCHANGED <<conversations, pending, nextMsgId, counted, lastCommitted>>
       ELSE IF ~(RoleValid(role) /\ ContentValid(content))
       THEN /\ lastOp' = Call("add_message", "ValidationError", 0)
            /\ UNCHANGED <<conversations, pending, nextMsgId, counted, lastCommitted>>
       ELSE LET conversation == conversations[conversation_id]
                message == ConversationMessage(nextMsgId, role, content)
                token_count == _estimate_tokens(content)
                appended == [messages |-> Append(conversation.messages, message),
                             token_count |-> conversation.token_count + token_count]
            IN  /\ nextMsgId <= MaxMsgs
                /\ conversations' = [conversations EXCEPT
                                        ![conversation_id] = _prune_history(appended)]
                /\ nextMsgId' = nextMsgId + 1
                /\ counted' = Recount(conversations', nextMsgId :> token_count)
                /\ lastCommitted' = [lastCommitted EXCEPT ![conversation_id] = nextMsgId]
                /\ lastOp' = Call("add_message", "ok", 0)
                /\ UNCHANGED pending

\* add_pending_message(conversation_id, role, content)
add_pending_message(conversation_id, role, text) ==
    LET buffer == buffer_for_append(conversation_id)
        message == ConversationMessage(nextMsgId, role, MessageContentFromStr(text))
    IN  /\ nextMsgId <= MaxMsgs
        /\ pending' = DictSet(pending, conversation_id, Append(buffer, message))
        /\ nextMsgId' = nextMsgId + 1
        /\ returned' = NoHistory
        /\ lastOp' = Call("add_pending_message", "ok", 0)
        /\ UNCHANGED <<conversations, counted, lastCommitted>>
        /\ UNCHANGED <<avars, xvars>>

\* The batch step of commit_pending: extend the history by the whole buffer,
\* add the estimate of every pending message's content, and only then prune.
RECURSIVE SumEstimates(_)
SumEstimates(messages) ==
    IF messages = <<>> THEN 0
    ELSE _estimate_tokens(StoredContent(Head(messages))) + SumEstimates(Tail(messages))

\* (extend_first_only: a merge that takes only the first pending message)
extend_first_only(conversation, buffer) ==
    [messages |-> conversation.messages \o <<Head(buffer)>>,
     token_count |-> conversation.token_count + SumEstimates(<<Head(buffer)>>)]

extend_and_count(conversation, buffer) ==
    [messages |-> conversation.messages \o buffer,
     token_count |-> conversation.token_count + SumEstimates(buffer)]

\* (prune_then_extend: pruning done before the batch is merged)
prune_then_extend(conversation, buffer) ==
    extend_and_count(_prune_history(conversation), buffer)
merge_pending(conversation, buffer) ==
    _prune_history(extend_and_count(conversation, buffer))

\* commit_pending(conversation_id): the buffer is popped first; it is merged
\* only when it is non-empty and the conversation is stored.  The closing debug
\* line indexes self.conversations[conversation_id] (KeyError when not stored).
commit_pending(conversation_id) ==
    LET buffer == pending_buffer(conversation_id)
    IN  /\ pending' = DictPop(pending, conversation_id)
        /\ IF buffer # <<>> /\ Known(conversation_id)
           THEN /\ conversations' = [conversations EXCEPT ![conversation_id] =
                                        merge_pending(@, buffer)]
                /\ counted' = Recount(conversations',
                        [mid \in MessageIds(buffer) |->
                            _estimate_tokens(StoredContent(
                                CHOOSE m \in {buffer[i] : i \in 1..Len(buffer)} :
                                    m.message_id = mid))])
                /\ lastCommitted' = [lastCommitted EXCEPT ![conversation_id] =
                                        buffer[Len(buffer)].message_id]
           ELSE UNCHANGED <<conversations, counted, lastCommitted>>
        /\ lastOp' = Call("commit_pending",
                          IF Known(conversation_id) THEN "ok" ELSE "KeyError",
                          Len(buffer))
        /\ returned' = NoHistory
        /\ UNCHANGED nextMsgId
        /\ UNCHANGED <<avars, xvars>>

\* rollback_pending(conversation_id)
rollback_pending(conversation_id) ==
    /\ pending' = DictPop(pending, conversation_id)
    /\ lastOp' = Call("rollback_pending", "ok", Len(pending_buffer(conversation_id)))
    /\ returned' = NoHistory
    /\ UNCHANGED <<conversations, nextMsgId, counted, lastCommitted>>
    /\ UNCHANGED <<avars, xvars>>

\* conversation.messages.copy(): a new list object with the same elements
\* (same_list: the list object itself, not a copy).
same_list(messages) == [list |-> messages, shared |-> TRUE]
copy_messages(messages) == [list |-> messages, shared |-> FALSE]

\* get_conversation_with_pending(conversation_id)
get_conversation_with_pending(conversation_id) ==
    /\ UNCHANGED <<avars, xvars>>
    /\ IF ~Known(conversation_id)
       THEN /\ lastOp' = Call("get_conversation_with_pending", "ValueError", 0)
            /\ returned' = NoHistory
            /\ UNCHANGED <<conversations, pending, nextMsgId, counted, lastCommitted>>
       ELSE LET conversation == conversations[conversation_id]
                copied == copy_messages(conversation.messages)
                buffer == pending_buffer(conversation_id)
                extended == copied.list \o buffer
            IN  /\ returned' = CombinedHistory(conversation_id, extended,
                                            conversation.token_count, copied.shared)
                /\ conversations' = IF copied.shared
                                    THEN [conversations EXCEPT ![conversation_id].messages = extended]
                                    ELSE conversations
                /\ lastOp' = Call("get_conversation_with_pending", "ok", 0)
                /\ UNCHANGED <<pending, nextMsgId, counted, lastCommitted>>

\* The caller changes the message list of the combined history it was handed
\* (combined.messages.clear()); the stored list changes with it only if it is
\* the same list object.
mutate_combined ==
    /\ returned.kind = "combined"
    /\ returned.messages # <<>>
    /\ returned' = [returned EXCEPT !.messages = <<>>]
    /\ conversations' = IF returned.shared
                        THEN [conversations EXCEPT ![returned.conversation_id].messages = <<>>]
                        ELSE conversations
    /\ lastOp' = Call("mutate_combined", "ok", 0)
    /\ UNCHANGED <<pending, nextMsgId, counted, lastCommitted>>
    /\ UNCHANGED <<avars, xvars>>

----------------------------------------------------------------------------
Next ==
    \/ \E id \in ConvIds \cup {NoId} : get_or_create_conversation(id)
    \/ \E id \in ConvIds, input \in AddInputs :
          add_message(id, input[1], input[2])
    \/ \E id \in ConvIds, role \in PendingRoleInputs, text \in TextLens :
          add_pending_message(id, role, text)
    \/ \E id \in ConvIds : commit_pending(id)
    \/ \E id \in ConvIds : rollback_pending(id)
    \/ \E id \in ConvIds : get_conversation_with_pending(id)
    \/ mutate_combined

Spec == Init /\ [][Next]_vars

----------------------------------------------------------------------------
\* A caller that stores tool rounds with add_message and keeps to the
\* protocol: plain user text, an assistant message with text and a tool-use
\* block, and a user message with the tool result, the last only right
\* after the assistant message that asked for it.
ToolRoundInputs ==
    {<<"user", ListContent(<<TextBlock("dict", n)>>)>> : n \in TextLens}
    \cup {<<"assistant", ListContent(<<TextBlock("dict", n), ToolUseBlock("dict", 1)>>)>> :
              n \in TextLens}
    \cup {<<"user", ListContent(<<ToolResultBlock("dict", 1)>>)>>}

HasBlock(content, type) ==
    \E j \in 1..Len(content.items) : content.items[j].type = type
AsksForTool(message) ==
    message.role = "assistant" /\ HasBlock(StoredContent(message), "tool_use")
InProtocol(conversation_id, input) ==
    HasBlock(input[2], "tool_result")
      => /\ Known(conversation_id)
         /\ conversations[conversation_id].messages # <<>>
         /\ AsksForTool(conversations[conversation_id].messages[
                            Len(conversations[conversation_id].messages)])

StoreNext ==
    \/ \E id \in ConvIds \cup {NoId} : get_or_create_conversation(id)
    \/ \E id \in ConvIds, input \in ToolRoundInputs :
          /\ InProtocol(id, input)
          /\ add_message(id, input[1], input[2])

StoreSpec == Init /\ [][StoreNext]_vars

----------------------------------------------------------------------------
\* ClaudeAssistant and its ConversationHistory (claude_assistant.py).

\* Bounds of the assistant's model: generate_response calls on one assistant,
\* and tool-use blocks in one model response.
MaxCalls == 2
MaxTools == 2

\* Tool names a tool-use block can carry: the one call_tool dispatches, and
\* one it does not know.
ToolNames == {"rag_search", "web_search"}
\* What running the tool behind rag_search does: it returns ranked results,
\* or raises (no "important_context" in the input, query formulation or
\* retrieval failing).
ToolOutcomes == {"results", "raises"}

\* Content blocks, as the dictionaries a Message holds.
TextDict == [type |-> "text", id |-> NoId, tool_use_id |-> NoId, name |-> "none"]
ToolUseDict(id, name) ==
    [type |-> "tool_use", id |-> id, tool_use_id |-> NoId, name |-> name]
ToolResultDict(tool_use_id) ==
    [type |-> "tool_result", id |-> NoId, tool_use_id |-> tool_use_id, name |-> "none"]

\* Message(role, content): content is a str or a list of dictionaries.
Str == [kind |-> "str", items |-> <<>>]
Blocks(items) == [kind |-> "list", items |-> items]
Message(role, content) == [role |-> role, content |-> content]
\* ConversationHistory.add_message
\* (history_add_nothing: an add_message that drops the message)
history_add_nothing(messages, role, content) == messages
history_add_message(messages, role, content) == Append(messages, Message(role, content))

\* What client.messages.create does: it raises, or returns a response with a
\* stop_reason and content blocks.
Failure == [ok |-> FALSE, stop_reason |-> "none", content |-> <<>>]
Reply == [ok |-> TRUE, stop_reason |-> "end_turn", content |-> <<TextDict>>]
ToolUse(content) == [ok |-> TRUE, stop_reason |-> "tool_use", content |-> content]

\* The tool-use responses of a call: 1..MaxTools tool-use blocks with ids no
\* earlier response used, or a text block followed by one tool-use block.
ToolUseBlocks(base, names) == [i \in 1..Len(names) |-> ToolUseDict(base + i, names[i])]
ToolUseResponses(base, k) ==
    {ToolUse(ToolUseBlocks(base, names)) : names \in [1..k -> ToolNames]}
TextThenToolUse(base) ==
    {ToolUse(<<TextDict>> \o ToolUseBlocks(base, <<name>>)) : name \in ToolNames}
FirstResponses(base) ==
    {Failure, Reply} \cup TextThenToolUse(base)
    \cup UNION {ToolUseResponses(base, k) : k \in 1..MaxTools}
\* The responses to the second call: a failure, a reply that starts with
\* text, or one whose first block is a tool-use block (it has no .text).
SecondResponses == {Failure, Reply, ToolUse(<<ToolUseDict(NoId, "rag_search")>>)}

\* @error_handler(logger): the decorated method's return value is returned
\* and its exception is logged and raised again.
error_handler(result) == result

\* How a generate_response call ends: with the reply, or with the Exception
\* raised at line 201 from the failure (root: the first exception's type).
Returned == error_handler([kind |-> "returned", error |-> "none", root |-> "none"])
\* (generation_error_as_reply: the except block handing back a reply)
generation_error_as_reply(root) ==
    error_handler([kind |-> "returned", error |-> "none", root |-> root])
generation_error(root) ==
    error_handler([kind |-> "raised", error |-> "Exception", root |-> root])

\* call_tool: rag_search runs the search, any other name raises ValueError.
call_tool(tool_name, env) ==
    error_handler(IF tool_name = "rag_search" THEN env ELSE "raises")

\* handle_tool_use: {"content": tool_result} when the tool returned, the str
\* "Error: ..." when it raised.
handle_tool_use(tool_use_content, env) ==
    error_handler(IF call_tool(tool_use_content.name, env) = "results"
                  THEN "dict" ELSE "str")

\* The entry appended to tool_results for one tool-use block (line 185).
tool_result_entry(content, tool_result) ==
    [type |-> "tool_result", tool_use_id |-> content.id, content |-> tool_result]

\* get_augmented_response's check of tool_results (line 386), and the content
\* of the user message it builds (lines 394-402).
invalid_tool_results(results) ==
    results = <<>> \/ results[1].content # "dict"
new_message_content(results) == <<ToolResultDict(results[1].tool_use_id)>>

\* The dictionaries appended to assistant_message for response.content
\* (lines 166-173): the text and tool-use blocks, in order.
RECURSIVE assistant_message(_)
assistant_message(content) ==
    IF content = <<>> THEN <<>>
    ELSE (IF Head(content).type \in {"text", "tool_use"} THEN <<Head(content)>> ELSE <<>>)
         \o assistant_message(Tail(content))

\* generate_response(user_input), up to the first model call: the user
\* message is added to the history.
generate_response ==
    /\ pc = "idle"
    /\ callNo < MaxCalls
    /\ callNo' = callNo + 1
    /\ history' = history_add_message(history, "user", Str)
    /\ pc' = "round1"
    /\ response' = <<>>
    /\ pos' = 1
    /\ tool_results' = <<>>
    /\ tool_calls' = <<>>
    /\ model_calls' = <<>>
    /\ outcome' = NoOutcome
    /\ UNCHANGED <<mvars, xvars>>

\* The first client.messages.create (lines 160-163) and what follows at once:
\* a failure ends the call at line 201, a plain reply is added and returned
\* (194-197), a tool-use response has its message added (165-176).
first_create(resp) ==
    /\ pc = "round1"
    /\ model_calls' = Append(model_calls, [round |-> 1, ok |-> resp.ok])
    /\ IF ~resp.ok
       THEN /\ outcome' = generation_error("APIError")
            /\ pc' = "idle"
            /\ UNCHANGED <<history, response>>
       ELSE IF resp.stop_reason = "tool_use"
       THEN /\ history' = history_add_message(history, "assistant",
                                              Blocks(assistant_message(resp.content)))
            /\ response' = resp.content
            /\ pc' = "tools"
            /\ UNCHANGED outcome
       ELSE /\ history' = history_add_message(history, "assistant", Str)
            /\ outcome' = Returned
            /\ pc' = "idle"
            /\ UNCHANGED response
    /\ UNCHANGED <<pos, tool_results, tool_calls, callNo>>
    /\ UNCHANGED <<mvars, xvars>>

\* One iteration of the loop over response.content (lines 179-185): a text
\* block is printed, a tool-use block has its tool run and its result kept.
tool_results_loop(env) ==
    /\ pc = "tools"
    /\ pos <= Len(response)
    /\ LET content == response[pos]
       IN  IF content.type = "tool_use"
           THEN /\ tool_results' = Append(tool_results,
                        tool_result_entry(content, handle_tool_use(content, env)))
                /\ tool_calls' = Append(tool_calls, content.id)
           ELSE UNCHANGED <<tool_results, tool_calls>>
    /\ pos' = pos + 1
    /\ UNCHANGED <<history, pc, response, model_calls, outcome, callNo>>
    /\ UNCHANGED <<mvars, xvars>>

\* get_augmented_response(tool_results), up to the second model call: invalid
\* tool_results raise ValueError, which ends generate_response at line 201;
\* otherwise the user message with the tool result is added to the history.
get_augmented_response ==
    /\ pc = "tools"
    /\ pos > Len(response)
    /\ IF invalid_tool_results(tool_results)
       THEN /\ outcome' = generation_error("ValueError")
            /\ pc' = "idle"
            /\ UNCHANGED history
       ELSE /\ history' = history_add_message(history, "user",
                                              Blocks(new_message_content(tool_results)))
            /\ pc' = "round2"
            /\ UNCHANGED outcome
    /\ UNCHANGED <<response, pos, tool_results, tool_calls, model_calls, callNo>>
    /\ UNCHANGED <<mvars, xvars>>

\* The second client.messages.create (lines 410-423) and the return of
\* generate_response (188-191): a failure, or a first block without text, is
\* raised again at 421 and at 201; otherwise the reply is added and returned.
second_create(resp) ==
    /\ pc = "round2"
    /\ model_calls' = Append(model_calls, [round |-> 2, ok |-> resp.ok])
    /\ IF ~resp.ok
       THEN /\ outcome' = generation_error("APIError")
            /\ UNCHANGED history
       ELSE IF resp.content[1].type # "text"
       THEN /\ outcome' = generation_error("AttributeError")
            /\ UNCHANGED history
       ELSE /\ history' = history_add_message(history, "assistant", Str)
            /\ outcome' = Returned
    /\ pc' = "idle"
    /\ UNCHANGED <<response, pos, tool_results, tool_calls, callNo>>
    /\ UNCHANGED <<mvars, xvars>>

AssistantNext ==
    \/ generate_response
    \/ \E resp \in FirstResponses((callNo - 1) * MaxTools) : first_create(resp)
    \/ \E env \in ToolOutcomes : tool_results_loop(env)
    \/ get_augmented_response
    \/ \E resp \in SecondResponses : second_create(resp)

AssistantSpec == Init /\ [][AssistantNext]_vars

----------------------------------------------------------------------------
\* Properties of the conversation store.

\* Steps of one operation, told by the call lastOp' records.
IsCall(op) == lastOp'.op = op

RECURSIVE SumCounted(_)
SumCounted(messages) ==
    IF messages = <<>> THEN 0
    ELSE counted[Head(messages).message_id] + SumCounted(Tail(messages))

\* C1: the stored token_count of every conversation equals the sum, over the
\* messages now in its committed history, of the tokens that were added when
\* each was committed (pruning subtracts for a removed message what was added
\* for it).
C1_TokenCountIsSumOfCommitted ==
    \A id \in DOMAIN conversations :
        conversations[id].token_count = SumCounted(conversations[id].messages)

\* C2: a committed history that holds more than one message has a token_count
\* of at most max_tokens.
C2_ManyMessagesUnderCeiling ==
    \A id \in DOMAIN conversations :
        Len(conversations[id].messages) > 1
            => conversations[id].token_count <= max_tokens

\* C2 witness: an append or commit has left more than one message and a
\* positive count in a history.
C2_Witness ==
    /\ lastOp.op \in {"add_message", "commit_pending"}
    /\ lastOp.res = "ok"
    /\ \E id \in DOMAIN conversations :
          /\ Len(conversations[id].messages) > 1
          /\ conversations[id].token_count > 0

\* C3: once a message has been committed to a conversation, its committed
\* history is never empty and ends with the message committed most recently.
C3_NewestSurvives ==
    \A id \in ConvIds :
        lastCommitted[id] # NoId
            => /\ Known(id)
               /\ conversations[id].messages # <<>>
               /\ conversations[id].messages[Len(conversations[id].messages)].message_id
                     = lastCommitted[id]

\* C3 witness: pruning has cut a history whose count is over the threshold
\* down to its newest message.
C3_Witness ==
    \E id \in DOMAIN conversations :
        /\ 10 * conversations[id].token_count > 9 * max_tokens
        /\ Len(conversations[id].messages) = 1
        /\ lastCommitted[id] > 1
        /\ conversations[id].messages[1].message_id = lastCommitted[id]

\* C4: an add_pending_message step and a rollback_pending step leave every
\* committed history and token_count as they were; rollback_pending leaves no
\* buffer for its id and the other buffers as they were, and changes nothing
\* when there was no buffer.
C4_RollbackRestores ==
    [][(IsCall("add_pending_message") \/ IsCall("rollback_pending")) =>
       \A id \in ConvIds :
        /\ (/\ IsCall("add_pending_message")
            /\ \E role \in PendingRoleInputs, text \in TextLens :
                  add_pending_message(id, role, text))
              => conversations' = conversations
        /\ (IsCall("rollback_pending") /\ rollback_pending(id))
              => /\ conversations' = conversations
                 /\ lastOp'.res = "ok"
                 /\ ~(id \in DOMAIN pending')
                 /\ \A other \in DOMAIN pending \ {id} :
                       other \in DOMAIN pending' /\ pending'[other] = pending[other]
                 /\ ~HasBuffer(id) => pending' = pending]_vars

\* C4 witness: rollback_pending has discarded a buffer of two messages of a
\* conversation that has a committed message.
C4_Witness ==
    /\ lastOp.op = "rollback_pending"
    /\ lastOp.n = 2
    /\ pending = <<>>
    /\ \E id \in DOMAIN conversations : conversations[id].messages # <<>>

CommitsBuffer(id) ==
    /\ IsCall("commit_pending")
    /\ Known(id) /\ HasBuffer(id) /\ pending[id] # <<>>
    /\ commit_pending(id)

C6_BufferSettledWhole ==
    [][IsCall("commit_pending") => \A id \in ConvIds :
        (/\ IsCall("commit_pending")
         /\ HasBuffer(id) /\ pending[id] # <<>>
         /\ commit_pending(id))
          => /\ ~(id \in DOMAIN pending')
             /\ Known(id)
             /\ conversations'[id] = merge_pending(conversations[id], pending[id])]_vars

\* C7: commit_pending for an id without a pending buffer returns normally and
\* changes no committed history, no token count and no pending buffer.
C7_CommitWithoutBufferIsNoOp ==
    [][IsCall("commit_pending") => \A id \in ConvIds :
        (IsCall("commit_pending") /\ ~HasBuffer(id) /\ commit_pending(id))
          => /\ lastOp'.res = "ok"
             /\ conversations' = conversations
             /\ pending' = pending]_vars

\* C8: add_pending_message can be called for any id, stored or not, with or
\* without a buffer; it ends normally, puts the new message at the end of
\* that id's buffer (after the messages already there), leaves the other
\* buffers alone and changes no committed history or token_count.
C8_AddPendingOnlyAppends ==
    /\ [](\A id \in ConvIds, role \in PendingRoleInputs, text \in TextLens :
            nextMsgId <= MaxMsgs => ENABLED add_pending_message(id, role, text))
    /\ [][IsCall("add_pending_message") =>
          \A id \in ConvIds, role \in PendingRoleInputs, text \in TextLens :
            (IsCall("add_pending_message") /\ add_pending_message(id, role, text))
              => /\ lastOp'.res = "ok"
                 /\ conversations' = conversations
                 /\ DOMAIN pending' = DOMAIN pending \cup {id}
                 /\ \A other \in DOMAIN pending \ {id} : pending'[other] = pending[other]
                 /\ pending'[id] =
                       Append(IF HasBuffer(id) THEN pending[id] ELSE <<>>,
                              [message_id |-> nextMsgId, role |-> role,
                               content |-> <<TextBlock("model", text)>>])]_vars

\* C8 witness: a second pending message has been added for an id that has no
\* stored conversation, behind the first.
C8_Witness ==
    /\ lastOp.op = "add_pending_message"
    /\ \E id \in DOMAIN pending :
          /\ ~Known(id)
          /\ Len(pending[id]) = 2
          /\ pending[id][1].message_id < pending[id][2].message_id

\* C9: get_conversation_with_pending for a stored id returns a history whose
\* messages are the committed messages followed by the pending ones, and
\* changes neither the stored histories nor the buffers; for an id that is
\* not stored it raises ValueError and changes nothing; and a later change of
\* the returned message list changes no stored history and no buffer.
C9_CombinedIsACopy ==
    [][/\ \A id \in ConvIds :
            (IsCall("get_conversation_with_pending")
                /\ get_conversation_with_pending(id))
              => /\ conversations' = conversations
                 /\ pending' = pending
                 /\ IF Known(id)
                    THEN /\ lastOp'.res = "ok"
                         /\ returned'.kind = "combined"
                         /\ returned'.conversation_id = id
                         /\ returned'.messages = conversations[id].messages
                               \o (IF HasBuffer(id) THEN pending[id] ELSE <<>>)
                    ELSE /\ lastOp'.res = "ValueError"
                         /\ returned' = NoHistory
       /\ (IsCall("mutate_combined") /\ mutate_combined)
            => conversations' = conversations /\ pending' = pending]_vars

\* C9 witness: the caller has emptied the message list of a combined history
\* taken of a conversation with a committed and a pending message, and both
\* are still stored.
C9_Witness ==
    /\ lastOp.op = "mutate_combined"
    /\ returned.messages = <<>>
    /\ Known(returned.conversation_id)
    /\ conversations[returned.conversation_id].messages # <<>>
    /\ HasBuffer(returned.conversation_id)
    /\ pending[returned.conversation_id] # <<>>

\* C10: get_or_create_conversation has no error path: every call of it, with
\* no id, with a stored id or with an id that is not stored, returns a history.
C10_GetOrCreateNeverFails ==
    lastOp.op = "get_or_create_conversation"
        => lastOp.res = "ok" /\ returned.kind = "stored"

\* C11: get_or_create_conversation with the id of a stored conversation
\* returns that stored history and changes no message sequence, no
\* token_count, no buffer and not the set of stored conversations; a second
\* call with the same id returns the same history again.
C11_GetExistingIsIdempotentRead ==
    [][IsCall("get_or_create_conversation") => \A id \in ConvIds :
        (/\ IsCall("get_or_create_conversation")
         /\ id \in DOMAIN conversations
         /\ get_or_create_conversation(id))
          => /\ lastOp'.res = "ok"
             /\ returned' = StoredHistory(id)
             /\ conversations' = conversations
             /\ pending' = pending
             /\ (lastOp.op = "get_or_create_conversation"
                    /\ returned.conversation_id = id) => returned' = returned]_vars

\* C11 witness: get_or_create_conversation has returned a stored conversation
\* that holds a committed message, while another conversation is stored too.
C11_Witness ==
    /\ lastOp.op = "get_or_create_conversation"
    /\ lastOp.res = "ok"
    /\ returned.kind = "stored"
    /\ conversations[returned.conversation_id].messages # <<>>
    /\ Cardinality(DOMAIN conversations) = 2

\* C12: add_message with an id that has no stored history raises the
\* not-found ValueError and changes nothing: no conversation is created, no
\* message is added, no token_count and no buffer changes.
C12_AddToUnknownFails ==
    [][IsCall("add_message") => \A id \in ConvIds, input \in AddInputs :
        (/\ IsCall("add_message")
         /\ ~(id \in DOMAIN conversations)
         /\ add_message(id, input[1], input[2]))
          => /\ lastOp'.res = "ValueError"
             /\ conversations' = conversations
             /\ pending' = pending
             /\ nextMsgId' = nextMsgId]_vars

\* C12 witness: add_message has raised ValueError while another conversation
\* with a committed message is stored.
C12_Witness ==
    /\ lastOp.op = "add_message"
    /\ lastOp.res = "ValueError"
    /\ \E id \in DOMAIN conversations : conversations[id].messages # <<>>
    /\ Cardinality(DOMAIN conversations) < MaxConvs

----------------------------------------------------------------------------
\* Properties of generate_response.

\* The tool-use blocks of a list of content blocks, in order.
ToolUses(items) == SelectSeq(items, LAMBDA b : b.type = "tool_use")
HasToolResult(message, id) ==
    \E j \in 1..Len(message.content.items) :
        /\ message.content.items[j].type = "tool_result"
        /\ message.content.items[j].tool_use_id = id
\* The first response of the call asked for tools, and the loop over its
\* blocks and get_augmented_response's start are over.
ToolRoundOver == response # <<>> /\ pc \in {"round2", "idle"}
\* The name of the tool-use block of the first response with this id.
NameOf(id) == (CHOOSE b \in {response[i] : i \in 1..Len(response)} : b.id = id).name

\* C13: when the first response asked for exactly one tool, a registered one,
\* the history holds, right after the assistant's tool-use message, a user
\* message with exactly one tool-result block carrying that block's id before
\* the second model call is made; and when the call has returned, the history
\* ends with the user message, the assistant tool-use message, that
\* tool-result message and the final assistant message, in this order.
C13_ToolRoundTrip ==
    LET uses == ToolUses(response)
    IN  (ToolRoundOver /\ Len(uses) = 1 /\ uses[1].name = "rag_search")
          => \E i \in 2..Len(history) :
                /\ history[i - 1] = Message("user", Str)
                /\ history[i] = Message("assistant", Blocks(assistant_message(response)))
                /\ i + 1 <= Len(history)
                /\ history[i + 1] = Message("user", Blocks(<<ToolResultDict(uses[1].id)>>))
                /\ outcome.kind = "returned"
                      => /\ Len(history) = i + 2
                         /\ history[i + 2] = Message("assistant", Str)

\* C14: when the second model call is about to be made, the tools of the k
\* tool-use blocks of the first response have been executed one after another
\* in the blocks' order, and the user message just added holds exactly k
\* tool-result blocks, the i-th carrying the id of the i-th tool-use block.
C14_OneResultPerToolUse ==
    pc = "round2"
      => LET uses == ToolUses(response)
         IN  /\ tool_calls = [i \in 1..Len(uses) |-> uses[i].id]
             /\ history[Len(history)] =
                   Message("user", Blocks([i \in 1..Len(uses) |-> ToolResultDict(uses[i].id)]))

\* C15: when the handler of a registered tool raised during the tool round,
\* the call does not end without the second model call having been made and
\* without a tool-result block for that tool-use block in the history: the
\* call is not ended by the tool's failure.
C15_HandlerFailureContinues ==
    \A j \in 1..Len(tool_results) :
        (/\ ToolRoundOver /\ pc = "idle"
         /\ tool_results[j].content = "str"
         /\ NameOf(tool_results[j].tool_use_id) = "rag_search")
          => /\ Len(model_calls) = 2
             /\ \E i \in 1..Len(history) : HasToolResult(history[i], tool_results[j].tool_use_id)
             /\ outcome.root # "ValueError"

\* C16: when a tool-use block named a tool that call_tool does not know, the
\* call does not end without a tool-result block for it in the history and
\* without the second model call having been made with it: the call is not
\* ended by the unknown tool.
C16_UnknownToolContinues ==
    \A j \in 1..Len(tool_results) :
        (/\ ToolRoundOver /\ pc = "idle"
         /\ NameOf(tool_results[j].tool_use_id) # "rag_search")
          => /\ \E i \in 1..Len(history) : HasToolResult(history[i], tool_results[j].tool_use_id)
             /\ \E c \in 1..Len(model_calls) : model_calls[c].round = 2
             /\ outcome.root # "ValueError"

\* C17: when no generate_response call is running, every tool-use block of an
\* assistant message in the history is answered in the next message by a
\* tool-result block with its id.
C17_EveryToolUseAnswered ==
    pc = "idle"
      => \A i \in 1..Len(history) :
            \A j \in 1..Len(history[i].content.items) :
                history[i].content.items[j].type = "tool_use"
                  => /\ i + 1 <= Len(history)
                     /\ HasToolResult(history[i + 1], history[i].content.items[j].id)

\* C19: a generate_response call makes at most one client.messages.create
\* attempt for round 1 and at most one for round 2; after a failed attempt it
\* makes no further one and ends by raising the Exception that wraps the
\* failure; and a call that returned a reply had no failed model call.
C19_ModelFailureRaises ==
    /\ Len(model_calls) <= 2
    /\ \A c \in 1..Len(model_calls) :
          /\ model_calls[c].round = c
          /\ ~model_calls[c].ok
                => /\ c = Len(model_calls)
                   /\ pc = "idle"
                   /\ outcome = [kind |-> "raised", error |-> "Exception", root |-> "APIError"]
    /\ outcome.kind = "returned" => \A c \in 1..Len(model_calls) : model_calls[c].ok

\* C19 witness: the second model call of a tool round has failed and the call
\* has ended raising, with the tool-result message already in the history.
C19_Witness ==
    /\ pc = "idle"
    /\ Len(model_calls) = 2
    /\ ~model_calls[2].ok
    /\ outcome.kind = "raised"
    /\ history[Len(history)].role = "user"
    /\ history[Len(history)].content.kind = "list"

\* C18: in every stored conversation history and in the assistant's history,
\* every tool-result block is in a message that has an immediately preceding
\* message, that message has role assistant and holds a tool-use block whose
\* id is the tool-result block's tool_use_id.
C18_ToolResultFollowsToolUse ==
    /\ \A id \in DOMAIN conversations :
          LET messages == conversations[id].messages
          IN  \A i \in 1..Len(messages) : \A j \in 1..Len(messages[i].content) :
                messages[i].content[j].type = "tool_result"
                  => /\ i > 1
                     /\ messages[i - 1].role = "assistant"
                     /\ \E k \in 1..Len(messages[i - 1].content) :
                           /\ messages[i - 1].content[k].type = "tool_use"
                           /\ messages[i - 1].content[k].id
                                 = messages[i].content[j].tool_use_id
    /\ \A i \in 1..Len(history) : \A j \in 1..Len(history[i].content.items) :
          history[i].content.items[j].type = "tool_result"
            => /\ i > 1
               /\ history[i - 1].role = "assistant"
               /\ \E k \in 1..Len(history[i - 1].content.items) :
                     /\ history[i - 1].content.items[k].type = "tool_use"
                     /\ history[i - 1].content.items[k].id
                           = history[i].content.items[j].tool_use_id

\* C20: add_message, commit_pending and rollback_pending calls issued
\* concurrently on one id take effect one whole call after another (no call
\* has a suspension point inside), and after each of them the token_count of
\* every conversation equals the sum of the estimates added for the messages
\* now committed, and its history is a suffix of the previous history
\* followed by the messages the call committed.
C20_ConcurrentCallsSerialized ==
    [][\A id \in ConvIds :
        (/\ lastOp'.op \in {"add_message", "commit_pending", "rollback_pending"}
         /\ id \in DOMAIN conversations
         /\ id \in DOMAIN conversations')
          => LET old == conversations[id].messages
                 new == conversations'[id].messages
             IN  /\ (conversations[id].token_count
                        = SumCounted(conversations[id].messages))'
                 /\ \E k \in 0..Len(old), n \in 0..Len(new) :
                       /\ SubSeq(new, 1, n) = SubSeq(old, k + 1, Len(old))
                       /\ \A j \in (n + 1)..Len(new) :
                             ~(new[j].message_id \in MessageIds(old))]_vars


\* C21: get_or_create_conversation calls with one and the same id that is not
\* stored yet, racing on the event loop, run one whole call after the other;
\* each of them ends with a history stored under that id and returns that
\* stored history, so the callers share one history and every message added
\* through it is kept.
C21_RacingCreatesShareOneHistory ==
    [][IsCall("get_or_create_conversation") => \A id \in ConvIds :
        (/\ ~Known(id)
         /\ get_or_create_conversation(id))
          => /\ id \in DOMAIN conversations'
             /\ returned' = StoredHistory(id)]_vars


\* The tokens that were added to token_count for each of the given messages,
\* summed; tokens maps a message_id to that number.
RECURSIVE SumTokens(_, _)
SumTokens(tokens, messages) ==
    IF messages = <<>> THEN 0
    ELSE tokens[Head(messages).message_id] + SumTokens(tokens, Tail(messages))

\* C24: an add_message step leaves as committed history a contiguous suffix of
\* the previous history followed by the new message, and the suffix is the
\* longest one that is either within 90% of max_tokens (by the tokens counted
\* for its messages) or a single message: only oldest messages are removed,
\* and no more of them than needed.
C24_PrunesOldestOnlyAsNeeded ==
    [][IsCall("add_message") => \A id \in ConvIds :
        (/\ Known(id)
         /\ lastOp'.res = "ok"
         /\ lastCommitted'[id] = nextMsgId)
          => LET new == conversations'[id].messages
                 all == conversations[id].messages \o <<new[Len(new)]>>
                 tokens == [mid \in DOMAIN counted \cup DOMAIN counted' |->
                              IF mid \in DOMAIN counted THEN counted[mid]
                              ELSE counted'[mid]]
                 Kept(k) == SubSeq(all, k + 1, Len(all))
                 Enough(k) == \/ k = Len(all) - 1
                              \/ 10 * SumTokens(tokens, Kept(k)) <= 9 * max_tokens
             IN  \E k \in 0..(Len(all) - 1) :
                    /\ new = Kept(k)
                    /\ Enough(k)
                    /\ \A j \in 0..(k - 1) : ~Enough(j)]_vars


\* C25: commit_pending prunes once, after the whole buffer has been merged
\* and counted: the committed history it leaves is what one pruning pass over
\* the previous history followed by the whole batch leaves, every message
\* that was dropped having been dropped while the count of history plus whole
\* batch, less what was subtracted for the messages dropped before it, was
\* over 90% of max_tokens.
C25_PrunesAfterWholeBatch ==
    [][IsCall("commit_pending") => \A id \in ConvIds :
        CommitsBuffer(id)
          => LET all == conversations[id].messages \o pending[id]
                 total == conversations[id].token_count + SumEstimates(pending[id])
                 Running(k) == total - SumEstimates(SubSeq(all, 1, k))
                 Stops(k) == \/ k = Len(all) - 1
                             \/ 10 * Running(k) <= 9 * max_tokens
             IN  \E k \in 0..(Len(all) - 1) :
                    /\ conversations'[id].messages = SubSeq(all, k + 1, Len(all))
                    /\ Stops(k)
                    /\ \A j \in 0..(k - 1) : ~Stops(j)]_vars

\* C25 witness: commit_pending has merged a buffer of two messages into a
\* history whose count was over the threshold, and the pruning pass that
\* followed has left only the last pending message.
C25_Witness ==
    /\ lastOp.op = "commit_pending"
    /\ lastOp.res = "ok"
    /\ lastOp.n = 2
    /\ \E id \in DOMAIN conversations :
          /\ Len(conversations[id].messages) = 1
          /\ conversations[id].messages[1].message_id = lastCommitted[id]
          /\ 10 * conversations[id].token_count > 9 * max_tokens


\* What is stored under an id is left as it was: whether it has a committed
\* history and a buffer, and the messages, token_count and buffer themselves.
Untouched(id) ==
    /\ (id \in DOMAIN conversations') = (id \in DOMAIN conversations)
    /\ (id \in DOMAIN pending') = (id \in DOMAIN pending)
    /\ id \in DOMAIN conversations => conversations'[id] = conversations[id]
    /\ id \in DOMAIN pending => pending'[id] = pending[id]

\* C26: an add_message, add_pending_message, commit_pending or
\* rollback_pending step keyed by one id, pruning included, leaves the
\* committed history, the token_count and the pending buffer of every other
\* id as they were, whatever calls on other ids ran before it: a step that
\* touches what is stored under one id is not a call keyed by another id.
C26_OtherConversationsUntouched ==
    [][(\/ IsCall("add_message") \/ IsCall("add_pending_message")
        \/ IsCall("commit_pending") \/ IsCall("rollback_pending")) =>
       \A other \in ConvIds :
        \/ Untouched(other)
        \/ \A id \in ConvIds \ {other} :
            ~(\/ /\ IsCall("add_message")
                 /\ \E input \in AddInputs : add_message(id, input[1], input[2])
              \/ /\ IsCall("add_pending_message")
                 /\ \E role \in PendingRoleInputs, text \in TextLens :
                       add_pending_message(id, role, text)
              \/ IsCall("commit_pending") /\ commit_pending(id)
              \/ IsCall("rollback_pending") /\ rollback_pending(id))]_vars

\* C26 witness: commit_pending has merged a pending message into one
\* conversation while another conversation holds a committed message and a
\* buffer.
C26_Witness ==
    /\ lastOp.op = "commit_pending"
    /\ lastOp.res = "ok"
    /\ lastOp.n = 1
    /\ \E id \in DOMAIN conversations, other \in DOMAIN conversations :
          /\ other # id
          /\ conversations[id].messages # <<>>
          /\ conversations[id].messages[Len(conversations[id].messages)].message_id
                = lastCommitted[id]
          /\ conversations[other].messages # <<>>
          /\ HasBuffer(other) /\ pending[other] # <<>>


\* The positions generate_response passes through, and the moves between
\* them: AWAITING_USER_INPUT is "idle" before the call, LLM_ROUND_1 "round1",
\* AWAITING_TOOL_RESULTS "tools", LLM_ROUND_2 "round2", DONE "idle" again.
StateOrder ==
    {<<"idle", "round1">>, <<"round1", "idle">>, <<"round1", "tools">>,
     <<"tools", "tools">>, <<"tools", "round2">>, <<"tools", "idle">>,
     <<"round2", "idle">>}

C30_RolesAlternate ==
    pc = "idle"
        => \A i \in 1..Len(history) :
              history[i].role = (IF i % 2 = 1 THEN "user" ELSE "assistant")


----------------------------------------------------------------------------
\* Properties of the vector store, the application and the repository.

\* C22: a VectorDB constructed with no arguments has the collection_name
\* "local-collection".
C22_DefaultCollectionName ==
    [][VectorDB(Omitted, Omitted)
        => vector_db'.collection_name = "local-collection"]_vars

\* C27: combine_queries returns the query followed by the generated queries
\* in first-seen order, without the entries that are empty or whitespace
\* only and with every distinct string once.
C27_CombineDropsBlanksAndDuplicates ==
    combined_queries.called
        => LET all == <<user_query>> \o generated_queries
               out == combined_queries.value
               keep == {i \in 1..Len(all) :
                           /\ strip(all[i]) # <<>>
                           /\ \A j \in 1..(i - 1) : all[j] # all[i]}
           IN  /\ Len(out) = Cardinality(keep)
               /\ \A i \in keep : out[Cardinality({j \in keep : j <= i})] = all[i]

\* C28: every request whose endpoint raised an exception that is not a
\* NonRetryableError was answered by global_exception_handler, with status
\* 500, code SERVER_ERROR and the generic detail; every request whose endpoint
\* raised a NonRetryableError was answered by non_retryable_exception_handler.
C28_GlobalHandlerAnswers ==
    \A i \in 1..Len(responses) :
        /\ responses[i].raised \in ExceptionTypes \ {"NonRetryableError"}
              => responses[i].response = global_exception_handler(responses[i].raised)
        /\ responses[i].raised = "NonRetryableError"
              => responses[i].response.handler = "non_retryable_exception_handler"

\* The key of a configured model class for a conversation id.
KeyOf(model_class, key) == <<prefix_config[model_class], key>>
Configured(model_class) ==
    model_class \in DOMAIN prefix_config /\ model_class \in DOMAIN ttl_config

\* C29: a repository call for a model class without a configured prefix or
\* TTL raises ValueError and leaves the server's keys as they were (set_method
\* and rpush_method write nothing); get_method, lpop_method and rpop_method
\* for a key that does not exist return None and do not create the key.
C29_UnconfiguredRaisesMissingIsNone ==
    [][\A key \in RedisIds, model_class \in ModelClasses :
        /\ (/\ ~Configured(model_class)
            /\ \/ set_method(key, model_class)
               \/ rpush_method(key, model_class)
               \/ get_method(key, model_class)
               \/ lrange_method(key, model_class)
               \/ delete_method(key, model_class)
               \/ lpop_method(key, model_class)
               \/ rpop_method(key, model_class))
              => /\ repo_result'.res = "ValueError"
                 /\ redis' = redis
        /\ (/\ Configured(model_class)
            /\ ~exists(redis, KeyOf(model_class, key))
            /\ \/ get_method(key, model_class)
               \/ lpop_method(key, model_class)
               \/ rpop_method(key, model_class))
              => /\ repo_result'.res = "None"
                 /\ redis' = redis
                 /\ ~exists(redis', KeyOf(model_class, key))]_vars

\* C29 witness: set_method with a value of an unconfigured class has raised
\* ValueError while the server holds the history and the pending list of a
\* conversation.
C29_Witness ==
    /\ repo_result = RepoCall("set_method", "ValueError")
    /\ \E key \in RedisIds :
          /\ exists(redis, KeyOf("ConversationHistory", key))
          /\ exists(redis, KeyOf("ConversationMessage", key))
          /\ redis[KeyOf("ConversationMessage", key)].kind = "list"


============================================================================
